---- MODULE Spec2Model ----
(***************************************************************************)
(* The streaming decode pipeline of the Sourcegraph search-stream client.  *)
(*                                                                         *)
(* The repository holds two generations of SourceGraphClient.search():     *)
(*   "search/SEP"  the generator that frames the byte stream itself on the *)
(*                 separator SEP (src/unnamed/part_003), and               *)
(*   "search/SSE"  the generator that iterates the SSEMessage values of an *)
(*                 SseStreamTransform (src/unnamed/part_002),              *)
(* and the pass-through generator                                          *)
(*   "raw/SSE"     SourceGraphClient.raw() (src/unnamed/part_002).         *)
(* One call of one of them is one behaviour of Spec.  ClientSpec follows a *)
(* client from its construction to the request of its call, PairSpec two   *)
(* calls of search() on one client, and FrameSpec one call of a generator  *)
(* that frames the stream itself, search() of part_003 or                  *)
(*   "events/SEP"  the generator of createSourceGraphClient                *)
(*                 (src/unnamed/part_001),                                 *)
(* on a stream of frames in other spellings.  TokenSpec follows one call   *)
(* of search() of part_003 or of                                           *)
(*   "search/TOKEN" search() of the older class, constructed with `token`  *)
(*                 (src/source-graph-client.ts, lines 274-374).            *)
(*                                                                         *)
(* Text is a sequence of lexical atoms (strings): the atoms are the units  *)
(* the code's string operations tell apart ("event:", "data:", a line      *)
(* feed, a space, an event name, the lexemes of a JSON text).  The bytes   *)
(* of the transport are the same atoms, except that the two bytes C3 A9    *)
(* of the character U+00E9 are two atoms, so that a chunk boundary can     *)
(* fall inside a character.                                                *)
(***************************************************************************)
EXTENDS Integers, Sequences, FiniteSets, TLC

VARIABLES
    call,          \* which generator this behaviour runs
    throwOnError,  \* options.throwOnError
    input,         \* what the server sends: frame ids (SEP) or message ids (SSE)
    body,          \* res.body: the bytes the transport has not delivered yet
    msgs,          \* the SSEMessage values the transform has not delivered yet
    raw,           \* `raw`: decoded text not yet cut into frames
    results,       \* the rest of the array being iterated at a yield
    yielded,       \* every value handed to the consumer so far, in order
    pc,            \* where the generator stands
    res,           \* the Response fetch resolves with
    error,         \* what it threw, "" when it did not
    requests,      \* calls of fetch so far
    reported,      \* console.error reports of handleError so far
    stream,        \* res.body as a ReadableStream: "none", "open", "closed", "cancelled"
    options,       \* the options object the user gave to the constructor
    headers,       \* this.headers
    client,        \* the constructor: "new" before it ran, then "ready" or "failed"
    request,       \* the call's arguments and the arguments of its fetch
    other          \* a second call of search() running on the same client

\* The state of the call this module follows
callVars == <<call, throwOnError, input, body, msgs, raw, results, yielded, pc, res,
              error, requests, reported, stream>>

\* The state of the client object
clientVars == <<options, headers, client>>

vars == <<callVars, clientVars, request, other>>

\* The most frames (messages) one response carries.
MaxFrames == 2

----------------------------------------------------------------------------
(* Text *)

LF == "LF"
SP == "SP"
EVENT == "event:"
DATA == "data:"
QUOTE == "QUOTE"
\* U+FFFD, what a TextDecoder writes for a malformed byte sequence
FFFD == "FFFD"
\* U+00E9 and its two UTF-8 bytes
E9 == "E9"
C3 == "C3"
A9 == "A9"

SEP == <<LF, LF>>

Lowest(S) == CHOOSE i \in S : \A j \in S : i <= j
Highest(S) == CHOOSE i \in S : \A j \in S : j <= i

\* String.prototype.slice(from) with a 0-based `from`
sliceFrom(s, from) == SubSeq(s, from + 1, Len(s))

\* String.prototype.slice(0, to)
sliceTo(s, to) == SubSeq(s, 1, to)

\* raw.indexOf(SEP): 0-based, -1 when SEP does not occur
indexOf(s) ==
    LET at == {i \in 1..(Len(s) - 1) : s[i] = SEP[1] /\ s[i + 1] = SEP[2]}
    IN  IF at = {} THEN -1 ELSE Lowest(at) - 1

\* raw.includes(SEP)
includes(s) == indexOf(s) # -1

isWhiteSpace(c) == c \in {LF, SP}

\* String.prototype.trim()
trim(s) ==
    LET keep == {i \in 1..Len(s) : ~isWhiteSpace(s[i])}
    IN  IF keep = {} THEN <<>> ELSE SubSeq(s, Lowest(keep), Highest(keep))

\* part.split("\n"): the lines of a text, at least one
RECURSIVE split(_)
split(s) ==
    LET at == {i \in 1..Len(s) : s[i] = LF}
    IN  IF at = {} THEN <<s>>
        ELSE <<SubSeq(s, 1, Lowest(at) - 1)>> \o split(sliceFrom(s, Lowest(at)))

\* line.startsWith(prefix), for the one-atom prefixes "event:" and "data:"
startsWith(line, prefix) == Len(line) >= 1 /\ line[1] = prefix

\* line.replace(prefix, ""): the first occurrence of the atom is removed
replace(line, prefix) ==
    LET at == {i \in 1..Len(line) : line[i] = prefix}
    IN  IF at = {} THEN line
        ELSE SubSeq(line, 1, Lowest(at) - 1) \o sliceFrom(line, Lowest(at))

\* new TextDecoder().decode(chunk), without {stream: true}: each chunk is decoded
\* on its own, a lead byte without its continuation byte and a continuation byte
\* without its lead byte each become U+FFFD
RECURSIVE decode(_)
decode(chunk) ==
    IF chunk = <<>> THEN <<>>
    ELSE IF chunk[1] = C3 /\ Len(chunk) >= 2 /\ chunk[2] = A9
         THEN <<E9>> \o decode(sliceFrom(chunk, 2))
    ELSE IF chunk[1] \in {C3, A9} THEN <<FFFD>> \o decode(Tail(chunk))
    ELSE <<chunk[1]>> \o decode(Tail(chunk))

\* TextEncoder.encode(text): the server's text as bytes
RECURSIVE encode(_)
encode(text) ==
    IF text = <<>> THEN <<>>
    ELSE IF text[1] = E9 THEN <<C3, A9>> \o encode(Tail(text))
    ELSE <<text[1]>> \o encode(Tail(text))

----------------------------------------------------------------------------
(* JSON *)

Null == [t |-> "null", v |-> <<>>]
Number(digits) == [t |-> "number", v |-> digits]
Object(lexeme) == [t |-> "object", v |-> <<lexeme>>]
String(chars) == [t |-> "string", v |-> chars]
Boolean(lexeme) == [t |-> "boolean", v |-> <<lexeme>>]
Array(elems) == [t |-> "array", v |-> elems]

\* The lexemes that are a whole object literal, such as {"type":"content"}
ObjectLexemes == {"r1", "r2"}
\* The one-character atoms a string literal of the inputs is made of
StringChars == {"a", E9, FFFD, SP}

Failure == [ok |-> FALSE, val |-> Null]
Success(val) == [ok |-> TRUE, val |-> val]

\* A JSON text that is no array: null, a boolean, a number, an object, a string
parseScalar(s) ==
    IF s = <<"null">> THEN Success(Null)
    ELSE IF s \in {<<"false">>, <<"true">>} THEN Success(Boolean(s[1]))
    ELSE IF s = <<"0">> THEN Success(Number(s))
    ELSE IF Len(s) = 1 /\ s[1] \in ObjectLexemes THEN Success(Object(s[1]))
    ELSE IF Len(s) >= 1 /\ \A i \in 1..Len(s) : s[i] = "7" THEN Success(Number(s))
    ELSE IF /\ Len(s) >= 2
            /\ s[1] = QUOTE
            /\ s[Len(s)] = QUOTE
            /\ \A i \in 2..(Len(s) - 1) : s[i] \in StringChars
         THEN Success(String(SubSeq(s, 2, Len(s) - 1)))
    ELSE Failure

\* The elements between "[" and "]": values separated by ",", white space
\* between the lexemes allowed
RECURSIVE parseElements(_)
parseElements(s) ==
    LET t == trim(s)
        commas == {i \in 1..Len(t) : t[i] = ","}
    IN  IF t = <<>> THEN Failure
        ELSE IF commas = {}
             THEN LET one == parseScalar(t)
                  IN  IF one.ok THEN Success(<<one.val>>) ELSE Failure
        ELSE LET first == parseScalar(trim(SubSeq(t, 1, Lowest(commas) - 1)))
                 rest == parseElements(sliceFrom(t, Lowest(commas)))
             IN  IF first.ok /\ rest.ok THEN Success(<<first.val>> \o rest.val)
                 ELSE Failure

\* JSON.parse(text): ok is FALSE where JSON.parse throws a SyntaxError
JSONparse(text) ==
    LET t == trim(text)
    IN  IF Len(t) >= 2 /\ t[1] = "[" /\ t[Len(t)] = "]"
        THEN LET inner == trim(SubSeq(t, 2, Len(t) - 1))
                 elems == parseElements(inner)
             IN  IF inner = <<>> THEN Success(Array(<<>>))
                 ELSE IF elems.ok THEN Success(Array(elems.val))
                 ELSE Failure
        ELSE parseScalar(t)

\* An array counted as one only when it has elements
isArray_nonEmpty(value) == value.t = "array" /\ value.v # <<>>

\* Array.isArray(value)
isArray(value) == value.t = "array"

\* Whether value[Symbol.iterator] exists: for...of and yield* throw a TypeError
\* on a value that has none
isIterable(value) == value.t \in {"array", "string"}

\* What iterating a value gives: the elements of an array, the characters of a
\* string
iterate(value) ==
    IF value.t = "array" THEN value.v
    ELSE [i \in 1..Len(value.v) |-> String(<<value.v[i]>>)]

----------------------------------------------------------------------------
(* The three generators *)

Calls == {"search/SEP", "search/SSE", "raw/SSE"}

\* One run of the frame loop: what it ended with (k), the buffer and the
\* report count it left, the array it is about to iterate (out), what it threw
Outcome(k, buf, out, err, rep) ==
    [k |-> k, raw |-> buf, out |-> out, err |-> err, rep |-> rep]

\* handleError with the throw lost: it reports whatever the policy
handleError_silent(toe) == FALSE

\* handleError(error): TRUE when it throws, FALSE when it reports and returns
handleError(toe) == toe

\* index one short: the second line feed of the separator stays in raw
indexAfterSep_short(buf) == indexOf(buf) + 1

\* index: the position after the first separator
indexAfterSep(buf) == indexOf(buf) + 2

\* part taken without trim(): the separator stays in it
partOf_untrimmed(buf) == sliceTo(buf, indexAfterSep(buf))

\* part: the text up to there, trimmed
partOf(buf) == trim(sliceTo(buf, indexAfterSep(buf)))

\* dt taken from the end of the frame: its last line
dataLine_last(lines) == lines[Len(lines)]

\* const [ev, dt] = part.split("\n"): dt is the second line, whatever follows it
dataLine(lines) == lines[2]

\* event without trim(): the white space around the name stays
eventOf_untrimmed(ev) == replace(ev, EVENT)

\* event: the event line without its prefix, trimmed
eventOf(ev) == trim(replace(ev, EVENT))

\* data: the data line without its prefix, trimmed
dataOf(dt) == trim(replace(dt, DATA))

\* The test of the done name lost: a done frame is a frame of another name
isDone_never(event) == FALSE

\* event === "done"
isDone(event) == event = <<"done">>

\* The filter on the event name lost: every frame is decoded as a matches frame
isMatches_any(event) == TRUE

\* event !== "matches", negated
isMatches(event) == event = <<"matches">>

\* A break in the place of the return: the frame loop is left, the chunk loop
\* goes on
doneOutcome_break(rest, rep) == Outcome("await", rest, <<>>, "", rep)

\* The `return` at a done frame: the generator completes
doneOutcome(rest, rep) == Outcome("return", rest, <<>>, "", rep)

\* search() of part_003, the loop `while (raw.includes(SEP))`, run from its top
\* until the generator yields (k = "yield": the first element of `out` is the
\* value), falls out of the loop to await the next chunk ("await"), returns
\* ("return") or throws ("throw")
RECURSIVE searchLoop(_, _, _)
searchLoop(buf, toe, rep) ==
    IF ~includes(buf) THEN Outcome("await", buf, <<>>, "", rep)
    ELSE
    LET part == partOf(buf)
        rest == sliceFrom(buf, indexAfterSep(buf))
        lines == split(part)
        ev == lines[1]
        dt == dataLine(lines)
        parsed == JSONparse(dataOf(dt))
    IN  IF part = <<>> THEN searchLoop(rest, toe, rep)
        ELSE IF ~startsWith(ev, EVENT)
             THEN IF handleError(toe)
                  THEN Outcome("throw", rest, <<>>, "missing event line", rep)
                  ELSE searchLoop(rest, toe, rep + 1)
        \* dt is undefined: dt.startsWith throws
        ELSE IF Len(lines) < 2
             THEN Outcome("throw", rest, <<>>, "TypeError", rep)
        ELSE IF ~startsWith(dt, DATA)
             THEN IF handleError(toe)
                  THEN Outcome("throw", rest, <<>>, "missing data line", rep)
                  ELSE searchLoop(rest, toe, rep + 1)
        ELSE IF isDone(eventOf(ev)) THEN doneOutcome(rest, rep)
        ELSE IF ~isMatches(eventOf(ev)) THEN searchLoop(rest, toe, rep)
        ELSE IF ~parsed.ok
             THEN IF handleError(toe)
                  THEN Outcome("throw", rest, <<>>, "unable to parse chunk data as JSON", rep)
                  ELSE searchLoop(rest, toe, rep + 1)
        \* for (const result of results) on a value that is not iterable
        ELSE IF ~isIterable(parsed.val)
             THEN Outcome("throw", rest, <<>>, "TypeError", rep)
        ELSE IF iterate(parsed.val) = <<>> THEN searchLoop(rest, toe, rep)
        ELSE Outcome("yield", rest, iterate(parsed.val), "", rep)

\* search() of createSourceGraphClient (part_001), its loop
\* `while (raw.includes('\n\n'))` run from its top: every frame that is not
\* empty is given to processChunk, which throws on a frame it cannot read and
\* returns the event that is yielded
RECURSIVE eventLoop(_)
eventLoop(buf) ==
    IF ~includes(buf) THEN Outcome("await", buf, <<>>, "", 0)
    ELSE
    LET part == partOf(buf)
        rest == sliceFrom(buf, indexAfterSep(buf))
        lines == split(part)
        ev == lines[1]
        dt == dataLine(lines)
        parsed == JSONparse(dataOf(dt))
    IN  IF part = <<>> THEN eventLoop(rest)
        ELSE IF ~startsWith(ev, EVENT)
             THEN Outcome("throw", rest, <<>>, "missing event line", 0)
        ELSE IF Len(lines) < 2 THEN Outcome("throw", rest, <<>>, "TypeError", 0)
        ELSE IF ~startsWith(dt, DATA)
             THEN Outcome("throw", rest, <<>>, "missing data line", 0)
        ELSE IF ~parsed.ok THEN Outcome("throw", rest, <<>>, "SyntaxError", 0)
        ELSE Outcome("yield", rest, <<[event |-> eventOf(ev), data |-> parsed.val]>>,
                     "", 0)

\* search() of the class constructed with `token` (the older class of
\* source-graph-client.ts), its loop `while (raw.includes(SEP))` run from its
\* top. The frame is cut from raw as in part_003, and a frame that is not empty
\* is then classified by `const [ev, dt] = chunk.split("\n")`: chunk is the
\* Uint8Array the stream delivered, which has no split, so the call throws
\* there and the lines that read ev and dt are never reached
RECURSIVE chunkLoop(_, _)
chunkLoop(buf, rep) ==
    IF ~includes(buf) THEN Outcome("await", buf, <<>>, "", rep)
    ELSE
    LET part == partOf(buf)
        rest == sliceFrom(buf, indexAfterSep(buf))
    IN  IF part = <<>> THEN chunkLoop(rest, rep)
        ELSE Outcome("throw", rest, <<>>, "TypeError", rep)

\* The frame loop of the call c
frameLoop(c, buf, toe, rep) ==
    IF c = "search/SEP" THEN searchLoop(buf, toe, rep)
    ELSE IF c = "events/SEP" THEN eventLoop(buf)
    ELSE chunkLoop(buf, rep)

\* safeParse(data): the parsed value, null when JSON.parse throws
safeParse(data) ==
    IF JSONparse(data).ok THEN JSONparse(data).val ELSE Null

\* msg.event !== "matches": the message is passed over
isSkipped(msg) == msg.event # "matches"

\* search() of part_002, one SSEMessage of the for-await loop
searchMessage(msg, toe, rep) ==
    IF isSkipped(msg) THEN Outcome("await", <<>>, <<>>, "", rep)
    ELSE IF ~isArray(safeParse(msg.data))
         THEN IF toe
              THEN Outcome("throw", <<>>, <<>>, "Error parsing Sourcegraph search result", rep)
              ELSE Outcome("await", <<>>, <<>>, "", rep)
    ELSE IF safeParse(msg.data).v = <<>> THEN Outcome("await", <<>>, <<>>, "", rep)
    ELSE Outcome("yield", <<>>, safeParse(msg.data).v, "", rep)

\* A string kept as it came
Raw(text) == [t |-> "raw", v |-> text]

\* raw() stopping at a done message, as search() of part_003 does
rawMessage_untilDone(msg, toe, rep) ==
    IF msg.event = "done" THEN Outcome("return", <<>>, <<>>, "", rep)
    ELSE Outcome("yield", <<>>, <<[event |-> msg.event, data |-> Raw(msg.data)]>>, "", rep)

\* raw() of part_002, one SSEMessage: msg.data = safeParse(msg.data) ?? msg.data
\* when msg.data is truthy, then the message is yielded
rawMessage(msg, toe, rep) ==
    LET data == IF msg.data = <<>> THEN Raw(msg.data)
                ELSE IF safeParse(msg.data) = Null THEN Raw(msg.data)
                ELSE safeParse(msg.data)
    IN  Outcome("yield", <<>>, <<[event |-> msg.event, data |-> data]>>, "", rep)

----------------------------------------------------------------------------
(* What the server sends *)

\* A frame of the wire format: event:<name> LF data:<payload> LF LF
Frame(name, payload) == <<EVENT>> \o name \o <<LF, DATA>> \o payload \o SEP

\* The well-formed frames: an event name and a payload.  "m2", "pg" and "dn" are
\* written as the tests write them, with a space after each prefix.
WellFormed ==
    [m1 |-> [event |-> "matches", data |-> <<"[", "r1", "]">>],
     m2 |-> [event |-> "matches", data |-> <<SP, "[", "r1", ",", SP, "r2", "]">>],
     m0 |-> [event |-> "matches", data |-> <<"[", "]">>],
     mu |-> [event |-> "matches", data |-> <<"[", QUOTE, E9, QUOTE, "]">>],
     mx |-> [event |-> "matches", data |-> <<SP, "invalid", SP, "json">>],
     mo |-> [event |-> "matches", data |-> <<"r1">>],
     ms |-> [event |-> "matches", data |-> <<QUOTE, "a", "a", QUOTE>>],
     mn |-> [event |-> "matches", data |-> <<"null">>],
     pg |-> [event |-> "progress", data |-> <<SP, "r1">>],
     dn |-> [event |-> "done", data |-> <<SP, "r2">>]]

\* The frames that lack a valid event line or a valid data line, and the empty
\* frame
IllFormed ==
    [eo |-> <<EVENT, SP, "ping">> \o SEP,
     nd |-> <<EVENT, SP, "custom", LF, "no:", SP, "data">> \o SEP,
     ne |-> <<DATA, SP, "[", "r1", "]">> \o SEP,
     bl |-> SEP]

WellFormedIds == DOMAIN WellFormed
FrameIds == WellFormedIds \cup DOMAIN IllFormed

\* Frames in other spellings: white space alone ("ws"); a done frame with an
\* empty payload ("d0") and with a payload that is no JSON text ("dx"); a matches
\* frame followed by a third line ("m3": an id line, "m4": a second data line);
\* white space after the prefixes and at the end of the lines ("mw", "dw")
Spelled ==
    [ws |-> <<SP>> \o SEP,
     d0 |-> <<EVENT, "done", LF, DATA>> \o SEP,
     dx |-> <<EVENT, SP, "done", LF, DATA, SP, "invalid", SP, "json">> \o SEP,
     m3 |-> <<EVENT, "matches", LF, DATA, "[", "r1", "]", LF, "id:", SP, "7">> \o SEP,
     m4 |-> <<EVENT, "matches", LF, DATA, "[", "r1", "]", LF, DATA, "[", "r2", "]">> \o SEP,
     mw |-> <<EVENT, SP, SP, "matches", SP, LF, DATA, SP, "[", "r1", "]", SP>> \o SEP,
     dw |-> <<EVENT, "done", SP, LF, DATA, SP, SP, "r2", SP>> \o SEP]

\* A matches frame the stream ends in before its blank line: without any line
\* feed after the payload ("mt"), and with one, as the stream of the test of the
\* empty array ends ("ml")
Unterminated ==
    [mt |-> <<EVENT, "matches", LF, DATA, "[", "r1", "]">>,
     ml |-> <<EVENT, SP, "matches", LF, DATA, SP, "[", "r1", "]", LF>>]

SpelledIds == DOMAIN Spelled
UnterminatedIds == DOMAIN Unterminated

\* The text of one frame
FrameText(id) ==
    IF id \in WellFormedIds
    THEN Frame((IF id \in {"m2", "pg", "dn"} THEN <<SP>> ELSE <<>>) \o <<WellFormed[id].event>>,
               WellFormed[id].data)
    ELSE IF id \in DOMAIN IllFormed THEN IllFormed[id]
    ELSE IF id \in SpelledIds THEN Spelled[id]
    ELSE Unterminated[id]

\* The text of a response: its frames one after the other
RECURSIVE Text(_)
Text(ids) == IF ids = <<>> THEN <<>> ELSE FrameText(Head(ids)) \o Text(Tail(ids))

\* Well-formed frames whose payload is a JSON value that is falsy: false, 0, the
\* empty string
Falsy ==
    [pf |-> [event |-> "progress", data |-> <<SP, "false">>],
     pz |-> [event |-> "progress", data |-> <<SP, "0">>],
     pe |-> [event |-> "progress", data |-> <<SP, QUOTE, QUOTE>>]]

FalsyIds == DOMAIN Falsy

\* The SSEMessage an SseStreamTransform makes of a well-formed frame: the event
\* name and the payload, white space trimmed
Message(id) ==
    IF id \in FalsyIds THEN [event |-> Falsy[id].event, data |-> trim(Falsy[id].data)]
    ELSE [event |-> WellFormed[id].event, data |-> trim(WellFormed[id].data)]

\* The message of a frame with an event line and an empty data line
NoData == [event |-> "matches", data |-> <<>>]

Messages(ids) == [i \in 1..Len(ids) |-> IF ids[i] = "md" THEN NoData ELSE Message(ids[i])]

UpTo(S, n) == UNION {[1..k -> S] : k \in 0..n}

Inputs(c) ==
    IF c = "search/SEP" THEN UpTo(FrameIds, MaxFrames)
    ELSE IF c = "search/SSE" THEN UpTo(WellFormedIds \cup {"md"}, MaxFrames)
    ELSE UpTo(WellFormedIds \cup FalsyIds \cup {"md"}, MaxFrames)

----------------------------------------------------------------------------
(* The client object and the request *)

\* Values of the options: undefined, a string (a text), a number, a boolean
Undefined == [t |-> "undefined"]
Str(s) == [t |-> "string", s |-> s]
Num(n) == [t |-> "number", n |-> n]
Bool(b) == [t |-> "boolean", b |-> b]

\* An options.init object with the given headers member
InitObject(h) == [t |-> "object", headers |-> h]
\* A plain object of header names and values, as a user writes init.headers
PlainHeaders(pairs) == [t |-> "object", pairs |-> pairs]
\* A Headers instance
HeadersObject(pairs) == [t |-> "Headers", pairs |-> pairs]

\* Truthiness as `if (x)` tests it: a value of the options counted as supplied
\* whenever it is defined
truthy_defined(x) == x.t # "undefined"

\* Truthiness as `if (x)` tests it
truthy(x) ==
    CASE x.t = "undefined" -> FALSE
      [] x.t = "string" -> x.s # <<>>
      [] x.t = "number" -> x.n # 0
      [] x.t = "boolean" -> x.b

\* x.toString(), and a string as `${x}` writes it
toString(x) ==
    CASE x.t = "string" -> x.s
      [] x.t = "number" -> <<ToString(x.n)>>
      [] x.t = "boolean" -> <<IF x.b THEN "true" ELSE "false">>

\* A header name in lower case, as a Headers instance keeps and compares names
lowerCase(name) ==
    CASE name = "Accept" -> "accept"
      [] name = "Authorization" -> "authorization"
      [] name = "X-Custom" -> "x-custom"
      [] OTHER -> name

\* new Headers(init): the pairs of init under their names in lower case
newHeaders(pairs) == {<<lowerCase(p[1]), p[2]>> : p \in pairs}

\* Headers.prototype.append in the place of set: the value the name had stays
set_append(h, name, value) == h \cup {<<lowerCase(name), value>>}

\* Headers.prototype.set(name, value): the value replaces any the name had
set(h, name, value) ==
    {p \in h : p[1] # lowerCase(name)} \cup {<<lowerCase(name), value>>}

\* options?.init?.headers || []
initHeaders(o) ==
    IF o.init.t = "object" /\ o.init.headers.t # "undefined"
    THEN o.init.headers.pairs
    ELSE {}

\* The branch the constructor takes: "none" is the branch that throws
credential(o) ==
    IF truthy(o.accessToken) THEN "accessToken"
    ELSE IF truthy(o.oauthToken) THEN "oauthToken"
    ELSE "none"

\* The Authorization value the constructor sets
authorization(o) ==
    IF credential(o) = "accessToken" THEN <<"token", SP>> \o toString(o.accessToken)
    ELSE <<"Bearer", SP>> \o toString(o.oauthToken)

\* this.headers as the constructor leaves it
constructedHeaders(o) ==
    set(set(newHeaders(initHeaders(o)), "Accept", <<"text/event-stream">>),
        "Authorization", authorization(o))

\* URLSearchParams.prototype.append(name, value)
append(params, name, value) == Append(params, <<name, value>>)

\* The characters the application/x-www-form-urlencoded serialiser escapes
percentEncode(c) ==
    CASE c = "&" -> "%26"
      [] c = "=" -> "%3D"
      [] c = SP -> "+"
      [] OTHER -> c

\* The same characters read back
percentDecode(c) ==
    CASE c = "%26" -> "&"
      [] c = "%3D" -> "="
      [] c = "+" -> SP
      [] OTHER -> c

\* URLSearchParams.prototype.toString(): name=value joined by "&"
RECURSIVE paramsToString(_)
paramsToString(params) ==
    IF params = <<>> THEN <<>>
    ELSE LET p == Head(params)
             one == <<p[1], "=">> \o [i \in 1..Len(p[2]) |-> percentEncode(p[2][i])]
         IN  IF Len(params) = 1 THEN one
             ELSE one \o <<"&">> \o paramsToString(Tail(params))

\* cl asked for whenever contextLines is set, chunk matches or not
clIncluded_always(o) == truthy(o.contextLines)

\* options.contextLines && options.enableChunkMatches
clIncluded(o) == truthy(o.contextLines) /\ truthy(o.enableChunkMatches)

\* The URLSearchParams stream() builds for a query and its SearchOptions
searchParams(query, o) ==
    LET q == append(<<>>, "q", query)
        v == IF truthy(o.version) THEN append(q, "v", toString(o.version)) ELSE q
        t == IF truthy(o.patternType) THEN append(v, "t", toString(o.patternType)) ELSE v
        m == IF truthy(o.maxLineLength)
             THEN append(t, "max-line-len", toString(o.maxLineLength)) ELSE t
        cm == IF truthy(o.enableChunkMatches)
              THEN append(m, "cm", toString(o.enableChunkMatches)) ELSE m
        d == IF truthy(o.displayLimit)
             THEN append(cm, "display", toString(o.displayLimit)) ELSE cm
    IN  IF clIncluded(o) THEN append(d, "cl", toString(o.contextLines)) ELSE d

\* options.url
Url == "https://example.sourcegraph.com/.api/search/stream"

\* `${this.options.url}?${params.toString()}`
requestUrl(query, o) == <<Url, "?">> \o paramsToString(searchParams(query, o))

\* options: SearchOptions = {}
NoSearchOptions ==
    [version |-> Undefined, patternType |-> Undefined, maxLineLength |-> Undefined,
     enableChunkMatches |-> Undefined, displayLimit |-> Undefined,
     contextLines |-> Undefined]

\* No call yet
NoRequest == [query |-> <<>>, options |-> NoSearchOptions, url |-> <<>>, headers |-> {}]

\* No second call
NoCall == [pc |-> "none"]

\* this.options.init after `init.headers = this.headers`: the object the user
\* gave, when there is one, has its headers member replaced
initAfterStream(o, h) ==
    IF o.init.t = "undefined" THEN o.init
    ELSE [o.init EXCEPT !.headers = HeadersObject(h)]

\* The client of the tests and its call client.search("test")
TestOptions == [accessToken |-> Str(<<"test">>), oauthToken |-> Undefined, init |-> Undefined]
TestQuery == <<"test">>
\* The options a client is constructed with
Tokens == {Undefined, Str(<<>>), Str(<<"tok">>)}
Inits ==
    {Undefined, InitObject(Undefined), InitObject(PlainHeaders({<<"X-Custom", <<"1">>>>})),
     InitObject(PlainHeaders({<<"Authorization", <<"old">>>>})),
     InitObject(PlainHeaders({<<"X-Custom", <<"1">>>>, <<"Accept", <<"application/json">>>>,
                              <<"authorization", <<"old">>>>}))}
ClientOptions == [accessToken : Tokens, oauthToken : Tokens, init : Inits]

\* The queries and the SearchOptions of a call
Queries == {<<"test", SP, "query">>, <<"a", "&", "cl", "=", "3">>}
Numbers == {Undefined, Num(0), Num(200)}
SearchOptions ==
    [version : {Undefined, Str(<<>>), Str(<<"V3">>)},
     patternType : {Undefined, Str(<<"regexp">>)},
     maxLineLength : Numbers,
     enableChunkMatches : {Undefined, Bool(FALSE), Bool(TRUE)},
     displayLimit : {Undefined, Num(0), Num(50)},
     contextLines : {Undefined, Num(0), Num(3)}]

----------------------------------------------------------------------------
(* One call *)

Responses == {"ok", "not ok", "no body"}

Init ==
    /\ call \in Calls
    /\ throwOnError \in BOOLEAN
    /\ input \in Inputs(call)
    /\ body = IF call = "search/SEP" THEN encode(Text(input)) ELSE <<>>
    /\ msgs = IF call = "search/SEP" THEN <<>> ELSE Messages(input)
    /\ raw = <<>>
    /\ results = <<>>
    /\ yielded = <<>>
    /\ pc = "start"
    /\ res = "none"
    /\ error = ""
    /\ requests = 0
    /\ reported = 0
    /\ stream = "none"
    /\ options = TestOptions
    /\ headers = constructedHeaders(TestOptions)
    /\ client = "ready"
    /\ request = NoRequest
    /\ other = NoCall

\* The stream left open when the generator is closed at a yield
iteratorReturn_leak(s) == s

\* What leaving `for await` before the stream's end does to the stream (a return
\* or a throw inside the loop, a return() of the consumer at a yield): the
\* loop closes its iterator, which cancels the stream and releases it
iteratorReturn(s) == "cancelled"

\* The generator moves on from where outcome r left it
Settle(r) ==
    /\ raw' = r.raw
    /\ reported' = r.rep
    /\ results' = IF r.k = "yield" THEN Tail(r.out) ELSE <<>>
    /\ yielded' = IF r.k = "yield" THEN Append(yielded, Head(r.out)) ELSE yielded
    /\ error' = IF r.k = "throw" THEN r.err ELSE error
    /\ pc' = CASE r.k = "yield" -> "yield"
               [] r.k = "await" -> "read"
               [] r.k = "return" -> "done"
               [] r.k = "throw" -> "thrown"
    /\ stream' = IF r.k \in {"return", "throw"} THEN iteratorReturn(stream) ELSE stream

\* A generator that starts over after a failure and calls fetch again
Fetch_retry(query, o, r) ==
    /\ pc \in {"start", "thrown"}
    /\ client = "ready"
    /\ pc' = "fetch"
    /\ res' = r
    /\ requests' = requests + 1
    /\ options' = [options EXCEPT !.init = initAfterStream(options, headers)]
    /\ request' = [query |-> query, options |-> o, url |-> requestUrl(query, o),
                    headers |-> headers]
    /\ UNCHANGED <<call, throwOnError, input, body, msgs, raw, results, yielded,
                   error, reported, stream, headers, client, other>>

\* The consumer's first next() of search(query, o) or raw(query, o): the
\* generator starts, builds the request, sets init.headers and calls fetch, which
\* the server answers with response r
Fetch(query, o, r) ==
    /\ pc = "start"
    /\ client = "ready"
    /\ pc' = "fetch"
    /\ res' = r
    /\ requests' = requests + 1
    /\ options' = [options EXCEPT !.init = initAfterStream(options, headers)]
    /\ request' = [query |-> query, options |-> o, url |-> requestUrl(query, o),
                    headers |-> headers]
    /\ UNCHANGED <<call, throwOnError, input, body, msgs, raw, results, yielded,
                   error, reported, stream, headers, client, other>>

\* The call of the tests: client.search("test"), client.raw("test")
Call(r) == Fetch(TestQuery, NoSearchOptions, r)

\* The check of res.body lost
responseError_okOnly(r) ==
    IF r = "not ok" THEN "Unable to fetch from Sourcegraph" ELSE ""

\* What the checks of the response throw, "" when the response passes them
responseError(r) ==
    IF r = "not ok" THEN "Unable to fetch from Sourcegraph"
    ELSE IF r = "no body" THEN "Missing body in Sourcegraph response"
    ELSE ""

\* fetch resolves: !res.ok and !res.body throw, otherwise the stream is iterated
FetchResolve ==
    /\ pc = "fetch"
    /\ pc' = IF responseError(res) = "" THEN "read" ELSE "thrown"
    /\ error' = responseError(res)
    /\ stream' = IF responseError(res) = "" THEN "open" ELSE stream
    /\ UNCHANGED <<call, throwOnError, input, body, msgs, raw, results, yielded,
                   res, requests, reported, clientVars, request, other>>

\* The generators that frame the byte stream themselves
FramingCalls == {"search/SEP", "events/SEP", "search/TOKEN"}

\* A reader that runs ahead of the consumer: chunks are taken from the stream
\* and appended to raw while the generator stands at a yield
ReadChunk_eager(n) ==
    /\ pc \in {"read", "yield"}
    /\ call \in FramingCalls
    /\ n \in 1..Len(body)
    /\ body' = sliceFrom(body, n)
    /\ IF pc = "read"
       THEN Settle(frameLoop(call, raw \o decode(sliceTo(body, n)), throwOnError, reported))
       ELSE /\ raw' = raw \o decode(sliceTo(body, n))
            /\ UNCHANGED <<results, yielded, error, pc, reported, stream>>
    /\ UNCHANGED <<call, throwOnError, input, msgs, res, requests, clientVars,
                   request, other>>

\* search() of part_003 and of part_001: the next chunk, of n bytes, arrives;
\* it is decoded, appended to raw, and the frame loop runs
ReadChunk(n) ==
    /\ pc = "read"
    /\ call \in FramingCalls
    /\ n \in 1..Len(body)
    /\ body' = sliceFrom(body, n)
    /\ Settle(frameLoop(call, raw \o decode(sliceTo(body, n)), throwOnError, reported))
    /\ UNCHANGED <<call, throwOnError, input, msgs, res, requests, clientVars,
                   request, other>>

\* search() and raw() of part_002: the next SSEMessage arrives
ReadMessage ==
    /\ pc = "read"
    /\ call \in {"search/SSE", "raw/SSE"}
    /\ msgs # <<>>
    /\ msgs' = Tail(msgs)
    /\ Settle(IF call = "search/SSE"
              THEN searchMessage(Head(msgs), throwOnError, reported)
              ELSE rawMessage(Head(msgs), throwOnError, reported))
    /\ UNCHANGED <<call, throwOnError, input, body, res, requests, clientVars,
                   request, other>>

\* The stream closes and what is left in raw is processed as a last frame, as
\* the lines part_001 has commented out would do
EndOfStream_flush ==
    /\ pc = "read"
    /\ body = <<>>
    /\ msgs = <<>>
    /\ pc' = "exhausted"
    /\ stream' = "closed"
    /\ yielded' = yielded \o frameLoop(call, raw \o SEP, FALSE, reported).out
    /\ UNCHANGED <<call, throwOnError, input, body, msgs, raw, results, res, error,
                   requests, reported, clientVars, request, other>>

\* The stream closes: the for-await loop ends and the generator returns
EndOfStream ==
    /\ pc = "read"
    /\ body = <<>>
    /\ msgs = <<>>
    /\ pc' = "exhausted"
    /\ stream' = "closed"
    /\ UNCHANGED <<call, throwOnError, input, body, msgs, raw, results, yielded,
                   res, error, requests, reported, clientVars, request, other>>

\* The consumer's next() at a yield: the rest of the array first, then the loop
Resume ==
    /\ pc = "yield"
    /\ Settle(IF results # <<>> THEN Outcome("yield", raw, results, "", reported)
              ELSE IF call \in FramingCalls
                   THEN frameLoop(call, raw, throwOnError, reported)
              ELSE Outcome("await", raw, <<>>, "", reported))
    /\ UNCHANGED <<call, throwOnError, input, body, msgs, res, requests,
                   clientVars, request, other>>

\* The consumer's return() at a yield (a break out of for await): the generator
\* completes there, and the for-await loop it stood in closes its iterator
Return ==
    /\ pc = "yield"
    /\ pc' = "cancelled"
    /\ stream' = iteratorReturn(stream)
    /\ UNCHANGED <<call, throwOnError, input, body, msgs, raw, results, yielded,
                   res, error, requests, reported, clientVars, request, other>>

Next ==
    \/ \E r \in Responses : Call(r)
    \/ FetchResolve
    \/ \E n \in 1..Len(body) : ReadChunk(n)
    \/ ReadMessage
    \/ EndOfStream
    \/ Resume
    \/ Return

Spec == Init /\ [][Next]_vars

----------------------------------------------------------------------------
(* A client from its construction to its request *)

\* new SourceGraphClient(options): the headers are built and the credential
\* chosen, or the constructor throws
Construct ==
    /\ client = "new"
    /\ client' = IF credential(options) = "none" THEN "failed" ELSE "ready"
    /\ headers' = IF credential(options) = "none" THEN {}
                  ELSE constructedHeaders(options)
    /\ UNCHANGED <<callVars, options, request, other>>

\* Any options, no client yet; the specification follows the client up to
\* its request, which the tests of the request capture in fetch
ClientInit ==
    /\ call \in Calls
    /\ throwOnError = FALSE
    /\ input = <<>>
    /\ body = <<>>
    /\ msgs = <<>>
    /\ raw = <<>>
    /\ results = <<>>
    /\ yielded = <<>>
    /\ pc = "start"
    /\ res = "none"
    /\ error = ""
    /\ requests = 0
    /\ reported = 0
    /\ stream = "none"
    /\ options \in ClientOptions
    /\ headers = {}
    /\ client = "new"
    /\ request = NoRequest
    /\ other = NoCall

ClientNext ==
    \/ Construct
    \/ \E query \in Queries, o \in SearchOptions : Fetch(query, o, "ok")

ClientSpec == ClientInit /\ [][ClientNext]_vars

----------------------------------------------------------------------------
(* Two calls of search() on one client, their pulls interleaved *)

\* The most frames the response of the first call carries
MaxPairFrames == 1

\* The frames of the two responses: results, a done frame, a bad frame
PairFrameIds == {"m2", "dn", "mx"}

\* A generator object as search(query) returns it, the response it will be
\* given being ids
NewCall(c, ids) ==
    [call |-> c, input |-> ids,
     body |-> IF c = "search/SEP" THEN encode(Text(ids)) ELSE <<>>,
     msgs |-> IF c = "search/SEP" THEN <<>> ELSE Messages(ids),
     raw |-> <<>>, results |-> <<>>, yielded |-> <<>>, pc |-> "start",
     res |-> "none", error |-> "", reported |-> 0, stream |-> "none"]

\* `raw` an instance field: the second call appends to the buffer of the first
ownRaw_shared(mine, theirs) == theirs

\* let raw = "": the buffer a call appends to is a local of its own generator
ownRaw(mine, theirs) == mine

\* Settle on the record of the second call
Settled(s, r) ==
    [s EXCEPT !.raw = r.raw,
              !.reported = r.rep,
              !.results = IF r.k = "yield" THEN Tail(r.out) ELSE <<>>,
              !.yielded = IF r.k = "yield" THEN Append(s.yielded, Head(r.out))
                          ELSE s.yielded,
              !.error = IF r.k = "throw" THEN r.err ELSE s.error,
              !.pc = CASE r.k = "yield" -> "yield"
                       [] r.k = "await" -> "read"
                       [] r.k = "return" -> "done"
                       [] r.k = "throw" -> "thrown",
              !.stream = IF r.k \in {"return", "throw"} THEN iteratorReturn(s.stream)
                         ELSE s.stream]

\* The steps the second call can take from s: those of Call, FetchResolve,
\* ReadChunk, ReadMessage, EndOfStream, Resume and Return, its response ok
Steps(s, toe) ==
    CASE s.pc = "start" -> {[s EXCEPT !.pc = "fetch", !.res = "ok"]}
      [] s.pc = "fetch" -> {[s EXCEPT !.pc = "read", !.stream = "open"]}
      [] s.pc = "read" ->
            {Settled([s EXCEPT !.body = sliceFrom(s.body, n)],
                     searchLoop(ownRaw(s.raw, raw) \o decode(sliceTo(s.body, n)),
                                toe, s.reported)) :
                n \in IF s.call = "search/SEP" THEN 1..Len(s.body) ELSE {}}
            \cup {Settled([s EXCEPT !.msgs = Tail(s.msgs)],
                          searchMessage(Head(s.msgs), toe, s.reported)) :
                     m \in IF s.call = "search/SSE" /\ s.msgs # <<>> THEN {1} ELSE {}}
            \cup {[s EXCEPT !.pc = "exhausted", !.stream = "closed"] :
                     e \in IF s.body = <<>> /\ s.msgs = <<>> THEN {1} ELSE {}}
      [] s.pc = "yield" ->
            {Settled(s, IF s.results # <<>>
                        THEN Outcome("yield", s.raw, s.results, "", s.reported)
                        ELSE IF s.call = "search/SEP"
                             THEN searchLoop(ownRaw(s.raw, raw), toe, s.reported)
                             ELSE Outcome("await", s.raw, <<>>, "", s.reported)),
             [s EXCEPT !.pc = "cancelled", !.stream = iteratorReturn(s.stream)]}
      [] OTHER -> {}

\* A pull of the second call, or its consumer's return()
OtherStep ==
    /\ \E t \in Steps(other, throwOnError) : other' = t
    /\ UNCHANGED <<callVars, clientVars, request>>

\* One client, two generators, nothing pulled yet
PairInit ==
    /\ call \in {"search/SEP", "search/SSE"}
    /\ throwOnError \in BOOLEAN
    /\ input \in UpTo(PairFrameIds, MaxPairFrames)
    /\ body = IF call = "search/SEP" THEN encode(Text(input)) ELSE <<>>
    /\ msgs = IF call = "search/SEP" THEN <<>> ELSE Messages(input)
    /\ raw = <<>>
    /\ results = <<>>
    /\ yielded = <<>>
    /\ pc = "start"
    /\ res = "none"
    /\ error = ""
    /\ requests = 0
    /\ reported = 0
    /\ stream = "none"
    /\ options = TestOptions
    /\ headers = constructedHeaders(TestOptions)
    /\ client = "ready"
    /\ request = NoRequest
    /\ other \in {NewCall(c, <<id>>) : c \in {"search/SEP", "search/SSE"}, id \in PairFrameIds}

PairNext ==
    \/ Call("ok")
    \/ FetchResolve
    \/ \E n \in 1..Len(body) : ReadChunk(n)
    \/ ReadMessage
    \/ EndOfStream
    \/ Resume
    \/ Return
    \/ OtherStep

PairSpec == PairInit /\ [][PairNext]_vars

----------------------------------------------------------------------------
(* One call on a stream of frames in other spellings *)

\* The most frames such a response carries
MaxSpelledFrames == 2

\* The frames of these responses: a matches frame, a done frame and an empty
\* frame as the tests write them, and the frames of Spelled and Unterminated
PlainIds == {"m1", "dn", "bl"}
TerminatedIds == PlainIds \cup SpelledIds

\* A response of terminated frames that may end in an unterminated one
SpelledInputs ==
    {ids \in UpTo(TerminatedIds \cup UnterminatedIds, MaxSpelledFrames) :
        \A i \in 1..(Len(ids) - 1) : ids[i] \in TerminatedIds}

\* The generator of part_001 has no throwOnError; it is followed on the
\* responses that end in an unterminated frame
FrameInit ==
    /\ call \in {"search/SEP", "events/SEP"}
    /\ throwOnError \in (IF call = "search/SEP" THEN BOOLEAN ELSE {FALSE})
    /\ input \in (IF call = "search/SEP" THEN SpelledInputs
                  ELSE {ids \in SpelledInputs :
                           ids # <<>> /\ ids[Len(ids)] \in UnterminatedIds})
    /\ body = encode(Text(input))
    /\ msgs = <<>>
    /\ raw = <<>>
    /\ results = <<>>
    /\ yielded = <<>>
    /\ pc = "start"
    /\ res = "none"
    /\ error = ""
    /\ requests = 0
    /\ reported = 0
    /\ stream = "none"
    /\ options = TestOptions
    /\ headers = constructedHeaders(TestOptions)
    /\ client = "ready"
    /\ request = NoRequest
    /\ other = NoCall

FrameNext ==
    \/ Call("ok")
    \/ FetchResolve
    \/ \E n \in 1..Len(body) : ReadChunk(n)
    \/ EndOfStream
    \/ Resume
    \/ Return

FrameSpec == FrameInit /\ [][FrameNext]_vars

----------------------------------------------------------------------------
(* One call of each of the two search() that classify a frame they cut *)

\* The generators whose loop cuts a frame from raw and classifies it by two
\* lines: search() of part_003 and search() of the class constructed with
\* `token`
ClassifyingCalls == {"search/SEP", "search/TOKEN"}

\* The frames of these responses
ClassifiedIds == {"m1", "m2", "m0", "mu", "mx", "pg", "dn", "bl", "eo", "nd", "ne"}

\* The older class has no throwOnError; its client, constructed with the token
\* "test", sends for search("test") the request the client of the tests sends
TokenInit ==
    /\ call \in ClassifyingCalls
    /\ throwOnError \in (IF call = "search/SEP" THEN BOOLEAN ELSE {FALSE})
    /\ input \in UpTo(ClassifiedIds, MaxFrames)
    /\ body = encode(Text(input))
    /\ msgs = <<>>
    /\ raw = <<>>
    /\ results = <<>>
    /\ yielded = <<>>
    /\ pc = "start"
    /\ res = "none"
    /\ error = ""
    /\ requests = 0
    /\ reported = 0
    /\ stream = "none"
    /\ options = TestOptions
    /\ headers = constructedHeaders(TestOptions)
    /\ client = "ready"
    /\ request = NoRequest
    /\ other = NoCall

TokenNext ==
    \/ Call("ok")
    \/ FetchResolve
    \/ \E n \in 1..Len(body) : ReadChunk(n)
    \/ EndOfStream
    \/ Resume
    \/ Return

TokenSpec == TokenInit /\ [][TokenNext]_vars

----------------------------------------------------------------------------
(* The consumer that pulls a call to its end, and the stream in one chunk *)

SearchCalls == {"search/SEP", "search/SSE"}

\* How a call stands: what it yielded, where it ended, what it threw, how many
\* reports it made
Result(ys, end, err, rep) == [yielded |-> ys, pc |-> end, error |-> err, rep |-> rep]

\* The call as it stands now
Now == Result(yielded, pc, error, reported)

\* The call has ended by itself, its response having carried a stream
EndedOnStream == res = "ok" /\ pc \in {"done", "exhausted", "thrown"}

\* search() of part_003 pulled to its end on the text buf, after which the
\* stream closes
RECURSIVE Drain(_, _, _, _)
Drain(buf, toe, rep, acc) ==
    LET r == searchLoop(buf, toe, rep)
    IN  CASE r.k = "yield" -> Drain(r.raw, toe, r.rep, acc \o r.out)
          [] r.k = "await" -> Result(acc, "exhausted", "", r.rep)
          [] r.k = "return" -> Result(acc, "done", "", r.rep)
          [] r.k = "throw" -> Result(acc, "thrown", r.err, r.rep)

\* The whole response delivered as a single chunk
WholeStream(ids, toe) == Drain(decode(encode(Text(ids))), toe, 0, <<>>)

\* search() of part_001 pulled to its end on the text buf, after which the
\* stream closes
RECURSIVE DrainEvents(_, _)
DrainEvents(buf, acc) ==
    LET r == eventLoop(buf)
    IN  CASE r.k = "yield" -> DrainEvents(r.raw, acc \o r.out)
          [] r.k = "await" -> Result(acc, "exhausted", "", 0)
          [] r.k = "throw" -> Result(acc, "thrown", r.err, 0)

\* A framing call pulled to its end on the response ids in a single chunk
WholeFrames(c, ids, toe) ==
    IF c = "search/SEP" THEN WholeStream(ids, toe)
    ELSE DrainEvents(decode(encode(Text(ids))), <<>>)

\* search() and raw() of part_002 pulled to their end on the messages ms
RECURSIVE DrainMessages(_, _, _, _)
DrainMessages(c, ms, toe, acc) ==
    IF ms = <<>> THEN Result(acc, "exhausted", "", 0)
    ELSE LET r == IF c = "search/SSE" THEN searchMessage(Head(ms), toe, 0)
                  ELSE rawMessage(Head(ms), toe, 0)
         IN  IF r.k = "throw" THEN Result(acc, "thrown", r.err, 0)
             ELSE DrainMessages(c, Tail(ms), toe, acc \o r.out)

\* The call c pulled to its end on the response ids
Whole(c, ids, toe) ==
    IF c = "search/SEP" THEN WholeStream(ids, toe)
    ELSE DrainMessages(c, Messages(ids), toe, <<>>)

----------------------------------------------------------------------------
(* The frames by what they are *)

\* The results a matches frame carries, written out by hand
Payload ==
    [m1 |-> <<Object("r1")>>,
     m2 |-> <<Object("r1"), Object("r2")>>,
     m0 |-> <<>>,
     mu |-> <<String(<<E9>>)>>]

\* Matches frames whose payload is a JSON array
ArrayIds == DOMAIN Payload
\* Matches frames whose payload is valid JSON and no array: an object, a string,
\* null
NonArrayIds == {"mo", "ms", "mn"}
\* Well-formed frames with another event name than matches and done
OtherIds == {"pg"}
\* Frames in which nothing is wrong
GoodIds == ArrayIds \cup OtherIds \cup {"dn"}
\* Frames without a data line
EventOnlyIds == {"eo"}
\* Frames lacking a valid event line or a valid data line
FramingInvalidIds == {"eo", "nd", "ne"}
\* Bad frames: framing-invalid, or a matches frame whose payload is not valid
\* JSON ("md": a matches message whose data is empty)
BadIds == FramingInvalidIds \cup {"mx", "md"}

Ids(ids) == {ids[i] : i \in 1..Len(ids)}
Without(ids, S) == SelectSeq(ids, LAMBDA x : x \notin S)

\* The results of the array frames of ids, in order
RECURSIVE MatchResults(_)
MatchResults(ids) ==
    IF ids = <<>> THEN <<>>
    ELSE (IF Head(ids) \in ArrayIds THEN Payload[Head(ids)] ELSE <<>>)
         \o MatchResults(Tail(ids))

IsPrefix(a, b) == Len(a) <= Len(b) /\ a = SubSeq(b, 1, Len(a))

\* Results compared without the characters a chunk boundary inside a character
\* turns into U+FFFD (C1): what is compared is which results are yielded
Blur(ys) ==
    [i \in 1..Len(ys) |->
        IF ys[i].t = "string"
        THEN String(SelectSeq(ys[i].v, LAMBDA c : c \notin {E9, FFFD}))
        ELSE ys[i]]

\* A result compared that way
Blurred(r) == [r EXCEPT !.yielded = Blur(r.yielded)]

TransportErrors == {responseError(r) : r \in Responses \ {"ok"}}

\* What the error policy throws when throwOnError is set
PolicyErrors ==
    {"missing event line", "missing data line", "unable to parse chunk data as JSON",
     "Error parsing Sourcegraph search result"}

\* What the consumer sees of a result: the values, the end, the failure
Seen(r) == <<Blur(r.yielded), r.pc, r.error>>

\* The frames before the first frame of ids that is in S
Before(ids, S) == SubSeq(ids, 1, Lowest({i \in 1..Len(ids) : ids[i] \in S}) - 1)

\* Frames that yield their results or nothing and let the call go on: array
\* frames, frames with another name, empty frames
PassingIds == ArrayIds \cup OtherIds \cup {"bl"}

\* The messages the transform has delivered so far
Delivered == Len(input) - Len(msgs)

----------------------------------------------------------------------------
(* C1 *)

\* C1: chunk-boundary independence of search(): however the byte stream is cut
\* into non-empty chunks, the results yielded and the way the call ends are
\* those of the same stream delivered as a single chunk.
C1_ChunkBoundaryIndependence ==
    (call = "search/SEP" /\ EndedOnStream) => Now = WholeStream(input, throwOnError)

----------------------------------------------------------------------------
(* C2 *)

\* A frame named done has been routed
DoneRouted ==
    \/ call = "search/SEP" /\ pc = "done"
    \/ call = "search/SSE" /\ \E i \in 1..Delivered : input[i] = "dn"

\* C2: once search() has routed a done frame, iteration has ended normally with
\* the results yielded so far: nothing more is yielded, nothing is thrown, and
\* nothing more is read from the stream.
C2_DoneEndsIteration ==
    [][DoneRouted => (yielded' = yielded /\ error' = "" /\ body' = body /\ msgs' = msgs)]_vars

----------------------------------------------------------------------------
(* C3 *)

\* C3: in search() only matches frames contribute results.  A well-formed frame
\* with another event name changes nothing: the call yields, reports and ends as
\* it does on the same response without those frames, under either policy; and
\* on a response of frames in which nothing is wrong (done frames included)
\* nothing is thrown or reported and every result is one of a matches frame, in
\* order.  (That a done frame ends the call is C2.)
C3_OnlyMatchesContribute ==
    (call \in SearchCalls /\ res = "ok") =>
        /\ EndedOnStream =>
               Blurred(Now) = Blurred(Whole(call, Without(input, OtherIds), throwOnError))
        /\ Ids(input) \subseteq GoodIds =>
               /\ error = ""
               /\ reported = 0
               /\ IsPrefix(Blur(yielded), Blur(MatchResults(input)))
               /\ ("dn" \notin Ids(input) /\ pc = "exhausted") =>
                      Blur(yielded) = Blur(MatchResults(input))

\* A progress frame came before a matches frame under the strict policy, and the
\* call went through both to the end of the stream
C3_Witness ==
    /\ call \in SearchCalls
    /\ throwOnError
    /\ pc = "exhausted"
    /\ Len(input) = 2 /\ input[1] = "pg" /\ input[2] = "m2"
    /\ Len(yielded) = 2

----------------------------------------------------------------------------
(* C4 *)

\* C4: under the default policy a frame that has an event line and no data line
\* is not yielded and does not abort search(): the call yields and ends as it
\* does on the same stream without those frames, and no exception reaches the
\* consumer.
C4_EventOnlyFrameSkipped ==
    (call = "search/SEP" /\ ~throwOnError /\ EndedOnStream) =>
        Seen(Now) = Seen(Whole(call, Without(input, EventOnlyIds), FALSE))

----------------------------------------------------------------------------
(* C5 *)

\* C5: a stream made only of framing-invalid frames yields nothing and ends
\* normally under the default policy, and ends with a failure under
\* throwOnError.
C5_OnlyInvalidFrames ==
    (/\ call = "search/SEP"
     /\ input # <<>>
     /\ Ids(input) \subseteq FramingInvalidIds
     /\ EndedOnStream) =>
        IF throwOnError THEN pc = "thrown"
        ELSE pc = "exhausted" /\ yielded = <<>> /\ error = ""

----------------------------------------------------------------------------
(* C6 *)

\* C6: error isolation per frame under the default policy: search() yields what
\* it yields for the same stream with every bad frame removed, and ends as it
\* ends there.
C6_ErrorIsolation ==
    (call \in SearchCalls /\ ~throwOnError /\ EndedOnStream) =>
        Seen(Now) = Seen(Whole(call, Without(input, BadIds), FALSE))

----------------------------------------------------------------------------
(* C7 *)

\* The response has a bad frame, and the frames before the first one are frames
\* search() passes
MeetsBadFrame ==
    /\ call \in SearchCalls
    /\ res = "ok"
    /\ Ids(input) \cap BadIds # {}
    /\ Ids(Before(input, BadIds)) \subseteq PassingIds

----------------------------------------------------------------------------
(* C8 *)

\* The response has a matches frame whose payload is valid JSON and no array,
\* and the frames before the first one are frames search() passes
MeetsNonArray ==
    /\ call \in SearchCalls
    /\ res = "ok"
    /\ Ids(input) \cap NonArrayIds # {}
    /\ Ids(Before(input, NonArrayIds)) \subseteq PassingIds

\* C8: a matches frame whose payload is valid JSON and no array is a decode
\* error: it yields nothing; under the default policy it is skipped, the call
\* yielding and ending as on the stream without it; under throwOnError it ends
\* the call through the error policy.
C8_NonArrayIsDecodeError ==
    MeetsNonArray =>
        /\ IsPrefix(Blur(yielded), Blur(MatchResults(input)))
        /\ (~throwOnError /\ EndedOnStream) =>
               Seen(Now) = Seen(Whole(call, Without(input, NonArrayIds), FALSE))
        /\ throwOnError =>
               /\ pc \notin {"done", "exhausted"}
               /\ pc = "thrown" =>
                      /\ error \in PolicyErrors
                      /\ Blur(yielded) = Blur(MatchResults(Before(input, NonArrayIds)))

----------------------------------------------------------------------------
(* C9 *)

\* C9: a response that is not ok or has no body fails search() and raw() on the
\* first pull, under either value of throwOnError, before anything is yielded
\* and without anything being read from the stream.
C9_TransportFailureFatal ==
    (res \in {"not ok", "no body"} /\ pc # "fetch") =>
        /\ pc = "thrown"
        /\ error = responseError(res)
        /\ error # ""
        /\ yielded = <<>>
        /\ body = (IF call = "search/SEP" THEN encode(Text(input)) ELSE <<>>)
        /\ msgs = (IF call = "search/SEP" THEN <<>> ELSE Messages(input))

\* raw() failed on a response without a body while throwOnError is false
C9_Witness ==
    /\ call = "raw/SSE"
    /\ ~throwOnError
    /\ res = "no body"
    /\ pc = "thrown"
    /\ input # <<>>

----------------------------------------------------------------------------
(* C10 *)

\* C10: raw() emits one event per message the transform delivers, in order and
\* whatever the event name; a done message is emitted like any other and does
\* not end the call, which ends only when the stream is exhausted.
C10_RawEmitsEveryFrame ==
    (call = "raw/SSE" /\ res = "ok") =>
        /\ Len(yielded) = Delivered
        /\ \A i \in 1..Len(yielded) : yielded[i].event = Messages(input)[i].event
        /\ pc \notin {"done", "thrown"}
        /\ pc = "exhausted" => Len(yielded) = Len(input)

\* raw() went through a done message and the message after it to the end of the
\* stream
C10_Witness ==
    /\ call = "raw/SSE"
    /\ pc = "exhausted"
    /\ Len(input) = 2 /\ input[1] = "dn" /\ input[2] = "pg"
    /\ Len(yielded) = 2
    /\ yielded[1].event = "done"

----------------------------------------------------------------------------
(* C11 *)

\* What JSON.parse makes of a payload, the payload itself when it is no JSON text
Decoded(data) == IF JSONparse(data).ok THEN JSONparse(data).val ELSE Raw(data)

\* C11: every event raw() emits carries the decoded JSON value of its payload
\* when the payload is a JSON text (null, false, 0 and the empty string
\* included), and the payload itself, unchanged, when it is not; a payload that
\* is no JSON text neither fails the call nor drops the event.
C11_RawPayloadDecoding ==
    (call = "raw/SSE" /\ res = "ok") =>
        /\ error = ""
        /\ Len(yielded) = Delivered
        /\ \A i \in 1..Len(yielded) : yielded[i].data = Decoded(Messages(input)[i].data)

----------------------------------------------------------------------------
(* C12 *)

\* A credential is supplied: a string that is not empty
Supplied(x) == x.t = "string" /\ x.s # <<>>

\* The values this.headers holds under a name, whatever the case of the name
ValuesOf(h, name) == {p[2] : p \in {e \in h : e[1] = lowerCase(name)}}

\* The Authorization value of an access token, of an OAuth token
TokenScheme(o) == <<"token", SP>> \o o.accessToken.s
BearerScheme(o) == <<"Bearer", SP>> \o o.oauthToken.s

\* C12: construction succeeds exactly when one of accessToken and oauthToken is
\* supplied and the other is not: with neither and with both it fails; with one
\* it succeeds and this.headers holds one Authorization value, "token <token>"
\* for an access token and "Bearer <token>" for an OAuth token.
C12_ExactlyOneCredential ==
    client # "new" =>
        /\ client = "ready" <=> (Supplied(options.accessToken) # Supplied(options.oauthToken))
        /\ client = "ready" =>
               ValuesOf(headers, "Authorization") =
                   {IF Supplied(options.accessToken) THEN TokenScheme(options)
                    ELSE BearerScheme(options)}

----------------------------------------------------------------------------
(* C13 *)

\* C13: when the consumer returns from search() or raw() at a yield, before
\* the stream is exhausted and before a done frame, the byte stream is cancelled
\* and released, and from then on nothing is read from it: what the transport
\* has not delivered stays undelivered.
C13_CancellationReleases ==
    /\ [](pc = "cancelled" => stream = "cancelled")
    /\ [][pc = "cancelled" => UNCHANGED <<body, msgs, stream, yielded>>]_vars

\* search() was left at the first result of a frame of two while the transport
\* still held bytes
C13_Witness ==
    /\ call = "search/SEP"
    /\ pc = "cancelled"
    /\ stream = "cancelled"
    /\ body # <<>>
    /\ Len(yielded) = 1
    /\ results # <<>>

----------------------------------------------------------------------------
(* C14 *)

\* The results of the first k frames of the response
ResultsUpTo(k) == Blur(MatchResults(SubSeq(input, 1, k)))

\* C14: search() yields the results of the matches frames in the order of the
\* frames and, within a frame, in the order of the array, each once: what has
\* been yielded is always the beginning of the results of the response; at a
\* yield it is, with the rest of the array being iterated, the results of the
\* first k frames; between frames and at the end of the call it is the results
\* of the first k frames, and of all of them when the stream was exhausted.
C14_Ordering ==
    (call \in SearchCalls /\ res = "ok") =>
        /\ IsPrefix(Blur(yielded), ResultsUpTo(Len(input)))
        /\ pc \in {"yield", "cancelled"} =>
               \E k \in 1..Len(input) : Blur(yielded \o results) = ResultsUpTo(k)
        /\ pc \in {"read", "done", "exhausted", "thrown"} =>
               \E k \in 0..Len(input) : Blur(yielded) = ResultsUpTo(k)
        /\ pc = "exhausted" => Blur(yielded) = ResultsUpTo(Len(input))

----------------------------------------------------------------------------
(* C15 *)

\* The response carries a stream without a done frame and, under throwOnError,
\* without a bad frame
EndsByExhaustion ==
    /\ call \in SearchCalls
    /\ res = "ok"
    /\ "dn" \notin Ids(input)
    /\ throwOnError => Ids(input) \cap (BadIds \cup NonArrayIds) = {}

\* C15: the end of the stream is a normal end of search(): on a stream without
\* a done frame, under the default policy whatever the frames are and under
\* throwOnError when no frame is bad, the call raises nothing and does not end
\* before the stream does, and when the stream is exhausted the call has
\* completed having yielded the results of every matches frame.
C15_ExhaustionIsNormalEnd ==
    EndsByExhaustion =>
        /\ pc \notin {"thrown", "done"}
        /\ error = ""
        /\ pc = "exhausted" => Blur(yielded) = ResultsUpTo(Len(input))

----------------------------------------------------------------------------
(* C16 *)

\* The frames that are a local failure of search(): a classification failure
\* (no valid event line or data line) or a decode failure (a matches payload
\* that is no JSON text, or no array)
FailureIds == BadIds \cup NonArrayIds

\* The response has such a frame, and the frames before the first one are
\* frames search() passes
MeetsFailure ==
    /\ call \in SearchCalls
    /\ res = "ok"
    /\ Ids(input) \cap FailureIds # {}
    /\ Ids(Before(input, FailureIds)) \subseteq PassingIds

\* C16: throwOnError alone decides what a local classification or decode
\* failure does: when it is true the first failing frame ends the call with a
\* failure, the call never ending normally; when it is false every failing
\* frame is skipped and the call goes on, yielding and ending as it does on the
\* stream without the failing frames.
C16_PolicyDecides ==
    /\ (MeetsFailure /\ throwOnError) => pc \notin {"done", "exhausted"}
    /\ (call \in SearchCalls /\ ~throwOnError /\ EndedOnStream) =>
           Seen(Now) = Seen(Whole(call, Without(input, FailureIds), FALSE))

----------------------------------------------------------------------------
(* C17 *)

\* C17: once the client is constructed no call changes the options object the
\* user supplied: not its credentials, not throwOnError, not the init object
\* inside it, headers member included.
C17_ConfigurationReadOnly ==
    [][client = "ready" => (options' = options /\ throwOnError' = throwOnError)]_vars

----------------------------------------------------------------------------
(* The request as the tests read it *)

\* A text cut at every occurrence of the atom sep
RECURSIVE splitOn(_, _)
splitOn(s, sep) ==
    LET at == {i \in 1..Len(s) : s[i] = sep}
    IN  IF at = {} THEN <<s>>
        ELSE <<SubSeq(s, 1, Lowest(at) - 1)>> \o splitOn(sliceFrom(s, Lowest(at)), sep)

\* new URL(url).searchParams: the name and the unescaped value of every
\* name=value of the text after "?"
searchParamsOf(url) ==
    LET query == splitOn(url, "?")[2]
        pairs == IF query = <<>> THEN <<>> ELSE splitOn(query, "&")
    IN  [i \in 1..Len(pairs) |->
            LET nv == splitOn(pairs[i], "=")
            IN  <<nv[1], [j \in 1..Len(nv[2]) |-> percentDecode(nv[2][j])]>>]

\* searchParams.getAll(name)
getAll(url, name) ==
    LET ps == searchParamsOf(url)
        at == SelectSeq([i \in 1..Len(ps) |-> i], LAMBDA i : ps[i][1] = <<name>>)
    IN  [k \in 1..Len(at) |-> ps[at[k]][2]]

\* The call has made its request
Requested == pc # "start"

\* The values of an option that add no parameter: omitted, empty, 0, false
IsFalsy(x) ==
    \/ x.t = "undefined"
    \/ x.t = "string" /\ Len(x.s) = 0
    \/ x.t = "number" /\ x.n = 0
    \/ x.t = "boolean" /\ ~x.b

\* The string form of the values the options take
StringForm(x) ==
    CASE x.t = "string" -> x.s
      [] x.t = "boolean" -> IF x.b THEN <<"true">> ELSE <<"false">>
      [] x.t = "number" /\ x.n = 3 -> <<"3">>
      [] x.t = "number" /\ x.n = 50 -> <<"50">>
      [] x.t = "number" /\ x.n = 200 -> <<"200">>
      [] x.t = "number" /\ x.n = 0 -> <<"0">>

----------------------------------------------------------------------------
(* C19 *)

\* C19: the request carries a cl parameter exactly when contextLines is truthy
\* and enableChunkMatches is truthy; with contextLines supplied and
\* enableChunkMatches omitted or false there is no cl parameter.
C19_ContextLinesNeedChunkMatches ==
    Requested =>
        (getAll(request.url, "cl") # <<>>) <=>
            (~IsFalsy(request.options.contextLines)
             /\ ~IsFalsy(request.options.enableChunkMatches))

\* A call with contextLines 3 and no enableChunkMatches made its request
\* without cl, its query holding the text &cl=3
C19_Witness ==
    /\ Requested
    /\ request.options.contextLines = Num(3)
    /\ request.options.enableChunkMatches = Undefined
    /\ request.query = <<"a", "&", "cl", "=", "3">>
    /\ getAll(request.url, "cl") = <<>>

----------------------------------------------------------------------------
(* C20 *)

\* The parameter each option is sent as
ParamOf ==
    [version |-> "v", patternType |-> "t", maxLineLength |-> "max-line-len",
     enableChunkMatches |-> "cm", displayLimit |-> "display"]

\* C20: whatever the search options, the request carries q once, its value the
\* query, and each of v, t, max-line-len, cm and display once, with the string
\* form of its option as value, when the option is supplied and truthy, and
\* not at all when the option is omitted, 0, false or empty.
C20_ParametersFollowOptions ==
    Requested =>
        /\ getAll(request.url, "q") = <<request.query>>
        /\ \A f \in DOMAIN ParamOf :
               getAll(request.url, ParamOf[f]) =
                   IF IsFalsy(request.options[f]) THEN <<>>
                   ELSE <<StringForm(request.options[f])>>

\* The call of the test of the request was made, with a query that has a
\* space in it
C20_Witness ==
    /\ Requested
    /\ request.query = <<"test", SP, "query">>
    /\ request.options = [version |-> Str(<<"V3">>), patternType |-> Str(<<"regexp">>),
                           maxLineLength |-> Num(200), enableChunkMatches |-> Bool(TRUE),
                           displayLimit |-> Num(50), contextLines |-> Num(3)]
    /\ getAll(request.url, "display") = <<<<"50">>>>

----------------------------------------------------------------------------
(* C18 *)

\* The second call as it stands now
OtherNow == Result(other.yielded, other.pc, other.error, other.reported)

\* C18: no state crosses calls: with the pulls of two calls of search() on one
\* client interleaved in any order, each call yields results of the response
\* it was given only, in the order it yields them when run alone, and ends as
\* it ends when run alone on its own stream.
C18_NoStateCrossesCalls ==
    /\ IsPrefix(Blur(yielded), Blur(Whole(call, input, throwOnError).yielded))
    /\ EndedOnStream => Seen(Now) = Seen(Whole(call, input, throwOnError))
    /\ IsPrefix(Blur(other.yielded),
                Blur(Whole(other.call, other.input, throwOnError).yielded))
    /\ other.pc \in {"done", "exhausted", "thrown"} =>
           Seen(OtherNow) = Seen(Whole(other.call, other.input, throwOnError))

\* The second call ended on its done frame while the first call held a part
\* of its matches frame in its buffer
C18_Witness ==
    /\ call = "search/SEP"
    /\ other.call = "search/SEP"
    /\ input = <<"m2">>
    /\ other.input = <<"dn">>
    /\ other.pc = "done"
    /\ pc = "read"
    /\ raw # <<>>

----------------------------------------------------------------------------
(* C21 *)

\* The names the constructor sets itself
OwnNames == {"accept", "authorization"}

\* The Authorization value of the configured credential
CredentialValue(o) == IF Supplied(o.accessToken) THEN TokenScheme(o) ELSE BearerScheme(o)

\* C21: after a successful construction this.headers holds every custom header
\* of init.headers with its value, Accept with text/event-stream and
\* Authorization with the value of the configured credential, and nothing else:
\* an Accept or Authorization the user put in init.headers, in whatever case,
\* is replaced.  The headers never change after construction, and they are
\* what the call gives to fetch.
C21_HeadersFixedAtConstruction ==
    /\ [](client = "ready" =>
            /\ ValuesOf(headers, "Accept") = {<<"text/event-stream">>}
            /\ ValuesOf(headers, "Authorization") = {CredentialValue(options)}
            /\ pc = "start" =>
                   /\ \A p \in initHeaders(options) :
                          lowerCase(p[1]) \notin OwnNames =>
                              ValuesOf(headers, p[1]) = {p[2]}
                   /\ {p[1] : p \in headers} =
                          OwnNames \cup {lowerCase(p[1]) : p \in initHeaders(options)}
            /\ Requested => request.headers = headers)
    /\ [][client = "ready" => headers' = headers]_vars

\* A client was constructed with an OAuth token and an init.headers that holds
\* a custom header, an Accept and an authorization of its own
C21_Witness ==
    /\ client = "ready"
    /\ pc = "start"
    /\ options.oauthToken = Str(<<"tok">>)
    /\ options.accessToken = Undefined
    /\ <<"authorization", <<"old">>>> \in initHeaders(options)
    /\ <<"Accept", <<"application/json">>>> \in initHeaders(options)
    /\ headers = {<<"x-custom", <<"1">>>>, <<"accept", <<"text/event-stream">>>>,
                  <<"authorization", <<"Bearer", SP, "tok">>>>}

----------------------------------------------------------------------------
(* C22 *)

\* Frames that are empty once trimmed
EmptyIds == {"bl", "ws"}

\* C22: search() discards a frame that is empty or white space alone: with
\* such frames anywhere in the stream, at its start and one after the other
\* included, the call yields, reports and ends as it does on the stream without
\* them, under either policy; a stream of such frames alone yields nothing,
\* reports nothing and ends when the stream does.
C22_EmptyFramesDiscarded ==
    (call = "search/SEP" /\ res = "ok") =>
        /\ pc = "yield" => IsPrefix(yielded, WholeStream(Without(input, EmptyIds), throwOnError).yielded)
        /\ EndedOnStream => Now = WholeStream(Without(input, EmptyIds), throwOnError)
        /\ (input # <<>> /\ Ids(input) \subseteq EmptyIds) =>
               /\ yielded = <<>>
               /\ reported = 0
               /\ error = ""
               /\ pc \notin {"thrown", "done"}

\* Under throwOnError the stream began with a frame of white space, and the
\* call went past it, yielded the result of the matches frame after it and
\* ended with the stream
C22_Witness ==
    /\ call = "search/SEP"
    /\ throwOnError
    /\ input = <<"ws", "m1">>
    /\ pc = "exhausted"
    /\ yielded = <<Object("r1")>>
    /\ reported = 0

----------------------------------------------------------------------------
(* C23 *)

\* Done frames with a data line: the payload an object, empty, no JSON text, an
\* object between spaces
DoneIds == {"dn", "d0", "dx", "dw"}

\* The results the terminated frames of these streams carry, written out by hand
SpelledPayload ==
    [m1 |-> <<Object("r1")>>, m3 |-> <<Object("r1")>>, m4 |-> <<Object("r1")>>,
     mw |-> <<Object("r1")>>, bl |-> <<>>, ws |-> <<>>,
     dn |-> <<>>, d0 |-> <<>>, dx |-> <<>>, dw |-> <<>>]

\* The results of the frames ids, in order
RECURSIVE SpelledResults(_)
SpelledResults(ids) ==
    IF ids = <<>> THEN <<>>
    ELSE SpelledPayload[Head(ids)] \o SpelledResults(Tail(ids))

\* C23: in search() a done frame that has a data line ends the iteration
\* normally whatever its payload is: on a stream with such a frame the call
\* never throws, never reports and never runs to the end of the stream, under
\* either policy, and when it has ended by itself it has ended on the first
\* done frame, having yielded the results of the frames before it.
C23_DonePayloadUnread ==
    (call = "search/SEP" /\ res = "ok" /\ Ids(input) \cap DoneIds # {}) =>
        /\ error = ""
        /\ reported = 0
        /\ pc \notin {"thrown", "exhausted"}
        /\ IsPrefix(yielded, SpelledResults(Before(input, DoneIds)))
        /\ pc = "done" => yielded = SpelledResults(Before(input, DoneIds))

\* Under throwOnError the call ended on a done frame whose payload is no JSON
\* text, after the result of the matches frame before it
C23_Witness ==
    /\ call = "search/SEP"
    /\ throwOnError
    /\ input = <<"m1", "dx">>
    /\ pc = "done"
    /\ yielded = <<Object("r1")>>

----------------------------------------------------------------------------
(* C24 *)

\* The call has ended: the stream was exhausted, a done frame was seen, the
\* consumer cancelled, or the call failed
Terminal == {"exhausted", "done", "cancelled", "thrown"}

\* C24: a call of search() ends in one terminal condition at most and stays
\* ended: once it has ended no step yields, reads, reports or changes the way
\* it ended; a failure is what a failed call ended with and nothing else is; a
\* call that ended by exhaustion read the whole stream; and on a stream of
\* frames in which nothing is wrong and one of which is a done frame, search()
\* of part_003 never ends by exhaustion.
C24_OneTerminalCondition ==
    /\ [](call \in SearchCalls =>
            /\ (error # "") <=> (pc = "thrown")
            /\ (stream = "closed") <=> (pc = "exhausted")
            /\ pc = "exhausted" => (body = <<>> /\ msgs = <<>>)
            /\ (call = "search/SEP" /\ Ids(input) \subseteq GoodIds /\ "dn" \in Ids(input)) =>
                   pc # "exhausted")
    /\ [][(call \in SearchCalls /\ pc \in Terminal) =>
             UNCHANGED <<pc, error, yielded, results, raw, body, msgs, reported, stream,
                         requests>>]_vars

\* search() ended on a done frame with a matches frame still in the stream
C24_Witness ==
    /\ call = "search/SEP"
    /\ input = <<"dn", "m2">>
    /\ pc = "done"
    /\ yielded = <<>>
    /\ error = ""
    /\ stream = "cancelled"

----------------------------------------------------------------------------
(* C25 *)

\* The text of the chunks received so far, one after the other.  The streams
\* of FrameSpec hold one-byte characters only, so the texts of the chunks are
\* the text of the stream up to the byte the transport stands at.
Received == decode(sliceTo(encode(Text(input)), Len(encode(Text(input))) - Len(body)))

\* What is left of a text once every frame is taken from its front, a frame
\* ending with the first separator after its start
RECURSIVE Remainder(_)
Remainder(text) ==
    IF ~includes(text) THEN text ELSE Remainder(sliceFrom(text, indexOf(text) + 2))

\* b is the text a ends with, and what stands before it ends with a separator
\* or is empty
EndsAfterSeparator(a, b) ==
    /\ Len(b) <= Len(a)
    /\ b = SubSeq(a, Len(a) - Len(b) + 1, Len(a))
    /\ LET cut == Len(a) - Len(b)
       IN  cut = 0 \/ (cut >= 2 /\ SubSeq(a, cut - 1, cut) = SEP)

\* C25: frame-buffer conservation in search(): what is retained is always the
\* end of the text received, starting behind a separator, so that the frames
\* extracted, their separators included, followed by what is retained are the
\* text received; and each time a chunk has been processed and the call goes
\* on, what is retained holds no separator and is what the text received
\* leaves once every frame is cut from it at the first separator.
C25_BufferConservation ==
    (call = "search/SEP" /\ pc \in {"read", "yield"}) =>
        /\ EndsAfterSeparator(Received, raw)
        /\ pc = "read" =>
               /\ ~includes(raw)
               /\ raw = Remainder(Received)

\* After the first frame was extracted and its result yielded, a part of the
\* second frame is retained while the transport still holds bytes
C25_Witness ==
    /\ call = "search/SEP"
    /\ input = <<"m1", "m3">>
    /\ pc = "read"
    /\ yielded = <<Object("r1")>>
    /\ raw = <<EVENT, "matches", LF, DATA, "[">>
    /\ body # <<>>

----------------------------------------------------------------------------
(* C26 *)

\* The stream ends in a frame that has no blank line after it
EndsUnterminated == input # <<>> /\ input[Len(input)] \in UnterminatedIds

\* The frames before the last
Front(ids) == SubSeq(ids, 1, Len(ids) - 1)

\* C26: a last frame the stream ends in without a blank line is discarded by
\* search(), in part_003 and in part_001, a complete matches frame included:
\* the call yields, reports and ends as it does on the stream without that
\* frame, and when the stream is exhausted the text of the frame is what was
\* left in the buffer.
C26_TrailingFrameDiscarded ==
    (call \in FramingCalls /\ res = "ok" /\ EndsUnterminated) =>
        /\ pc = "yield" => IsPrefix(yielded, WholeFrames(call, Front(input), throwOnError).yielded)
        /\ EndedOnStream => Now = WholeFrames(call, Front(input), throwOnError)
        /\ pc = "exhausted" => raw = FrameText(input[Len(input)])

\* Under throwOnError the stream ended one line feed after a matches frame:
\* the call ended with the stream, the result of the frame before yielded and
\* the last frame left in the buffer
C26_Witness ==
    /\ call = "search/SEP"
    /\ throwOnError
    /\ input = <<"m1", "ml">>
    /\ pc = "exhausted"
    /\ yielded = <<Object("r1")>>
    /\ raw = Unterminated["ml"]
    /\ reported = 0

----------------------------------------------------------------------------
(* C27 *)

\* C27: search() is lazy and pull-driven: before the first pull no request has
\* been made and nothing has been taken from the stream; a chunk (a message)
\* is taken from the stream only while the generator runs a pull and has
\* nothing left to deliver, no result of the array it was iterating and no
\* complete frame in its buffer; and while it stands at a yield nothing is
\* taken from the stream.
C27_LazyPullDriven ==
    /\ []((call \in SearchCalls /\ pc = "start") =>
            /\ requests = 0
            /\ stream = "none"
            /\ yielded = <<>>
            /\ body = (IF call = "search/SEP" THEN encode(Text(input)) ELSE <<>>)
            /\ msgs = (IF call = "search/SEP" THEN <<>> ELSE Messages(input)))
    /\ [][(call \in SearchCalls /\ (body' # body \/ msgs' # msgs)) =>
             (pc = "read" /\ results = <<>> /\ ~includes(raw))]_vars

\* search() stands at the first result of a frame of two, the second result
\* undelivered, a part of the next frame in its buffer and the rest of it
\* still with the transport
C27_Witness ==
    /\ call = "search/SEP"
    /\ input = <<"m2", "m1">>
    /\ pc = "yield"
    /\ Len(yielded) = 1
    /\ results # <<>>
    /\ Len(raw) >= 2
    /\ body # <<>>

----------------------------------------------------------------------------
(* C28 *)

\* C28: a call of search() or raw() makes one request: none before its first
\* pull, one in it, and no other afterwards, whether the response failed, a
\* frame was bad, a done frame came, the stream was exhausted or the consumer
\* cancelled.
C28_OneRequestPerCall ==
    /\ requests = (IF pc = "start" THEN 0 ELSE 1)
    /\ pc # "start" => request.url = requestUrl(TestQuery, NoSearchOptions)

\* Under throwOnError search() failed on a bad frame after a first result,
\* having made its one request
C28_Witness ==
    /\ call = "search/SEP"
    /\ throwOnError
    /\ input = <<"m1", "mx">>
    /\ pc = "thrown"
    /\ error = "unable to parse chunk data as JSON"
    /\ requests = 1

----------------------------------------------------------------------------
(* C29 *)

\* Frames of more than two lines
LongIds == {"m3", "m4"}

\* A frame without the lines after its second: the matches frame "m1" is what
\* "m3" and "m4" begin with
TwoLines(id) == IF id \in LongIds THEN "m1" ELSE id

\* A response with every frame cut to its first two lines
Shortened(ids) == [i \in 1..Len(ids) |-> TwoLines(ids[i])]

\* C29: search() reads a frame of more than two lines by its first two lines:
\* with such frames in the stream, the third line an id line or a second data
\* line, the call yields, reports and ends as it does on the stream in which
\* each of them is cut to its first two lines, under either policy; a stream
\* of matches frames of two lines and more is read to its end and yields the
\* result of the first data line of each.
C29_ExtraLinesIgnored ==
    (call = "search/SEP" /\ res = "ok") =>
        /\ pc = "yield" => IsPrefix(yielded, WholeStream(Shortened(input), throwOnError).yielded)
        /\ EndedOnStream => Now = WholeStream(Shortened(input), throwOnError)
        /\ (EndedOnStream /\ Ids(input) \subseteq {"m1", "m3", "m4"}) =>
               /\ pc = "exhausted"
               /\ yielded = SpelledResults(input)
               /\ reported = 0

\* Under throwOnError a matches frame with a second data line and one with an
\* id line went through, each yielding the result of its first data line
C29_Witness ==
    /\ call = "search/SEP"
    /\ throwOnError
    /\ input = <<"m4", "m3">>
    /\ pc = "exhausted"
    /\ yielded = <<Object("r1"), Object("r1")>>
    /\ reported = 0

----------------------------------------------------------------------------
(* C30 *)

\* A frame without the white space after its prefixes and at the end of its
\* lines: "mw" is "m1" and "dw" is "dn" written with more of it
Unspaced(id) ==
    CASE id = "mw" -> "m1"
      [] id = "dw" -> "dn"
      [] OTHER -> id

\* A response with every frame written that way
Compact(ids) == [i \in 1..Len(ids) |-> Unspaced(ids[i])]

\* C30: white space after "event:" and "data:" and at the end of the two lines
\* is insignificant to search(): the call yields, reports and ends as it does on
\* the stream whose frames are written without it, under either policy; a
\* stream of matches frames written either way is read to its end and yields
\* the result of each.
C30_WhitespaceInsignificant ==
    (call = "search/SEP" /\ res = "ok") =>
        /\ pc = "yield" => IsPrefix(yielded, WholeStream(Compact(input), throwOnError).yielded)
        /\ EndedOnStream => Now = WholeStream(Compact(input), throwOnError)
        /\ (EndedOnStream /\ Ids(input) \subseteq {"m1", "mw"}) =>
               /\ pc = "exhausted"
               /\ yielded = SpelledResults(input)
               /\ reported = 0

\* Under throwOnError a matches frame written with spaces around its name and
\* its payload yielded its result, and the done frame written with spaces after
\* it ended the call
C30_Witness ==
    /\ call = "search/SEP"
    /\ throwOnError
    /\ input = <<"mw", "dw">>
    /\ pc = "done"
    /\ yielded = <<Object("r1")>>
    /\ reported = 0

----------------------------------------------------------------------------
(* C31 *)

\* Matches frames whose payload is the empty array
EmptyArrayIds == {"m0"}

\* C31: in search() a matches frame whose payload is the empty array yields
\* nothing, is no error under either policy and does not end the iteration:
\* the call yields, reports and ends as it does on the stream without such
\* frames, and a stream of such frames alone is read to its end with nothing
\* yielded, reported or thrown.
C31_EmptyArrayYieldsNothing ==
    (call \in SearchCalls /\ res = "ok") =>
        /\ EndedOnStream =>
               Blurred(Now) = Blurred(Whole(call, Without(input, EmptyArrayIds), throwOnError))
        /\ (input # <<>> /\ Ids(input) \subseteq EmptyArrayIds) =>
               /\ yielded = <<>>
               /\ reported = 0
               /\ error = ""
               /\ pc \notin {"thrown", "done", "yield"}

\* Under throwOnError search() of part_002 went past an empty array, yielded
\* the two results of the frame after it and ended with the stream
C31_Witness ==
    /\ call = "search/SSE"
    /\ throwOnError
    /\ input = <<"m0", "m2">>
    /\ pc = "exhausted"
    /\ Len(yielded) = 2
    /\ reported = 0

\* What classifying each frame of ids by itself, one after the other, does:
\* every frame is read by the loop of part_003 with nothing before it and
\* nothing after it in the buffer
RECURSIVE ByFrame(_, _, _, _)
ByFrame(ids, toe, rep, acc) ==
    IF ids = <<>> THEN Result(acc, "exhausted", "", rep)
    ELSE LET r == Drain(decode(encode(FrameText(Head(ids)))), toe, rep, <<>>)
         IN  IF r.pc = "exhausted"
             THEN ByFrame(Tail(ids), toe, r.rep, acc \o r.yielded)
             ELSE Result(acc \o r.yielded, r.pc, r.error, r.rep)

\* C32: the classifier is applied to the text of the extracted frame. The event
\* name and the payload that route the k-th frame come from that frame's own
\* first two lines, never from the incoming chunk and never from another frame:
\* a call that has ended on its stream has done what classifying each frame of
\* the response by itself, one after the other, does
C32_ClassifierReadsTheFrame ==
    (call \in ClassifyingCalls /\ EndedOnStream) =>
        Blurred(Now) = Blurred(ByFrame(input, throwOnError, 0, <<>>))

\* The same of search() of part_003 alone
C32_Part003ReadsTheFrame ==
    (call = "search/SEP" /\ EndedOnStream) =>
        Blurred(Now) = Blurred(ByFrame(input, throwOnError, 0, <<>>))

====
